---- MODULE Spec2Model ----
(***************************************************************************)
(* A model of the shop core of wreckssimplebot:                            *)
(*   - the catalog configuration wizard of shop_ui.py (ShopAddView, its    *)
(*     selects and ConfigModal) over the tables of db.py,                  *)
(*   - the pricing function apply_discounts of shop_ui.py,                 *)
(*   - the command builders of command_builders.py.                        *)
(* Function bodies are modelled statement by statement.  A name a body     *)
(* uses denotes the repository's definition of that name (shop_ui.py calls *)
(* get_kit_by_id and create_shop_item_kit of db.py; `con` in               *)
(* start_kit_flow is the acquired connection `conn`).  Parameter           *)
(* annotations are not evaluated; a def binds the parameter names its def  *)
(* line gives, and a call binds arguments to them as Python does.          *)
(* ConfigModal's on_submit is read with the block structure its statements *)
(* spell out: lines 86-103 are the single branch, lines 107-120 the kit    *)
(* branch.                                                                 *)
(* discord.py supplies the dispatch: a View stops dispatching its          *)
(* components once its timeout fires, a Modal is dispatched on its own     *)
(* timeout, which ConfigModal leaves at the default (none).                *)
(***************************************************************************)
EXTENDS Integers, Sequences, FiniteSets, TLC

VARIABLES
    admin_roles,    \* shop_ui.admin_roles: the loaded admin_roles.json
    library,        \* rows of table shop_item_library
    kits,           \* rows of table shop_kit
    shop_item,      \* rows of table shop_item, in insertion (id) order
    phase,          \* per wizard: the component its message shows
    view,           \* per wizard: the fields of its ShopAddView
    options,        \* per wizard: the ids listed in the select shown
    modal,          \* per wizard: a ConfigModal of the view is open
    finished,       \* per wizard: the view's timeout has fired
    outcome,        \* per wizard: how its last handler ended
    discounts,      \* shop_ui.discounts: the loaded discounts.json
    ad,             \* the frame of one apply_discounts call
    cb              \* the frame of one call of a command builder

vars == <<admin_roles, library, kits, shop_item, phase, view, options, modal,
          finished, outcome, discounts, ad, cb>>

(***************************************************************************)
(* Bounds                                                                  *)
(***************************************************************************)
NumWizards == 2     \* wizard instances alive at the same time
MaxRows == 2        \* shop_item rows written in one run
MaxRules == 2       \* entries of discounts.json
MaxComponents == 2  \* components of one kit

Wizards == 1..NumWizards

(***************************************************************************)
(* Python values                                                           *)
(***************************************************************************)
\* None and a present value: an optional is a sequence of length 0 or 1.
None == <<>>
Some(v) == <<v>>

\* Text is a sequence of one-character strings.
Digits == {"0", "1", "2", "3", "4", "5", "6", "7", "8", "9"}

DigitVal(c) ==
    CASE c = "0" -> 0 [] c = "1" -> 1 [] c = "2" -> 2 [] c = "3" -> 3
      [] c = "4" -> 4 [] c = "5" -> 5 [] c = "6" -> 6 [] c = "7" -> 7
      [] c = "8" -> 8 [] c = "9" -> 9

RECURSIVE LStrip(_)
LStrip(s) ==
    IF s /= <<>> /\ Head(s) = " " THEN LStrip(Tail(s)) ELSE s

RECURSIVE RStrip(_)
RStrip(s) ==
    IF s /= <<>> /\ s[Len(s)] = " " THEN RStrip(SubSeq(s, 1, Len(s) - 1)) ELSE s

\* str.strip()
Strip(s) == RStrip(LStrip(s))

UpperCase == <<"A", "B", "C", "D", "E", "F", "G", "H", "I", "J", "K", "L", "M",
               "N", "O", "P", "Q", "R", "S", "T", "U", "V", "W", "X", "Y", "Z">>
LowerCase == <<"a", "b", "c", "d", "e", "f", "g", "h", "i", "j", "k", "l", "m",
               "n", "o", "p", "q", "r", "s", "t", "u", "v", "w", "x", "y", "z">>

\* str.lower()
Lower(s) ==
    [i \in 1..Len(s) |->
        IF \E k \in 1..26 : UpperCase[k] = s[i]
        THEN LowerCase[CHOOSE k \in 1..26 : UpperCase[k] = s[i]]
        ELSE s[i]]

RECURSIVE DigitsValue(_, _)
DigitsValue(s, acc) ==
    IF s = <<>> THEN acc
    ELSE DigitsValue(Tail(s), 10 * acc + DigitVal(Head(s)))

\* int(text): surrounding blanks, an optional sign, then decimal digits;
\* anything else raises ValueError (ok = FALSE).  (Python also takes "_"
\* between digits and non-ASCII digits; no text drawn in Forms has either.)
PyInt(s) ==
    LET t == Strip(s)
        signed == t /= <<>> /\ t[1] \in {"+", "-"}
        body == IF signed THEN Tail(t) ELSE t
        sign == IF signed /\ t[1] = "-" THEN -1 ELSE 1
    IN  IF body /= <<>> /\ \A i \in 1..Len(body) : body[i] \in Digits
        THEN [ok |-> TRUE, v |-> sign * DigitsValue(body, 0)]
        ELSE [ok |-> FALSE, v |-> 0]

(***************************************************************************)
(* The Catalog Store: the tables of db.py's SCHEMA_SQL                     *)
(***************************************************************************)
CategoryRows ==
    {[id |-> 1, name |-> "Weapons"], [id |-> 2, name |-> "Armor"]}

LibraryRows ==
    {[id |-> 12, category_id |-> 1, name |-> "Rifle", blueprint_path |-> Some("/bp/rifle")]}

KitRows ==
    {[id |-> 3, name |-> "Starter", active |-> TRUE],
     [id |-> 4, name |-> "Retired", active |-> FALSE]}

\* SELECT * FROM shop_item_library WHERE id = %s; fetchone()
find_item_library(library_id) ==
    IF \E r \in library : Some(r.id) = library_id
    THEN Some(CHOOSE r \in library : Some(r.id) = library_id)
    ELSE None

\* SELECT id, name FROM shop_kit WHERE id = %s; fetchone()
get_kit_by_id(kit_id) ==
    IF \E r \in kits : Some(r.id) = kit_id
    THEN Some(CHOOSE r \in kits : Some(r.id) = kit_id)
    ELSE None

\* SELECT id, name FROM shop_category WHERE name LIKE '%%' ORDER BY name LIMIT 25
search_categories == {r.id : r \in CategoryRows}

\* SELECT id, name FROM shop_item_library WHERE category_id = %s ORDER BY name
list_items_by_category(category_id) ==
    {r.id : r \in {x \in library : Some(x.category_id) = category_id}}

\* select id, name from shop_kit where active=1 order by name limit 25
list_kits == {r.id : r \in {x \in kits : x.active}}

\* The INT UNSIGNED columns of shop_item hold no negative number: the server
\* stores 0 for one when it is not in strict mode.
Unsigned(n) == IF n < 0 THEN 0 ELSE n
UnsignedOpt(o) == IF o = None THEN None ELSE Some(Unsigned(o[1]))

OutOfRange(row) ==
    \/ row.price < 0
    \/ row.quantity < 0
    \/ row.quality /= None /\ row.quality[1] < 0
    \/ row.buy_limit /= None /\ row.buy_limit[1] < 0

Stored(row) ==
    [row EXCEPT !.price = Unsigned(row.price),
                !.quantity = Unsigned(row.quantity),
                !.quality = UnsignedOpt(row.quality),
                !.buy_limit = UnsignedOpt(row.buy_limit)]

\* INSERT INTO shop_item (kind, library_id, category_id, name, blueprint_path,
\*   price, quantity, quality, is_blueprint, buy_limit, active)
\* VALUES ('single', ...): kit_id is not among the columns and stays NULL.
create_shop_item(library_id, category_id, name, blueprint_path, price, quantity, quality, is_blueprint, buy_limit) ==
    [kind |-> "single",
     library_id |-> library_id,
     kit_id |-> None,
     category_id |-> Some(category_id),
     name |-> name,
     blueprint_path |-> blueprint_path,
     price |-> price,
     quantity |-> quantity,
     quality |-> quality,
     is_blueprint |-> is_blueprint,
     buy_limit |-> buy_limit,
     active |-> TRUE]

\* A kit insert that fills library_id as well.
create_shop_item_kit_both(kit_id, name, price, quantity, buy_limit) ==
    [kind |-> "kit",
     library_id |-> kit_id,
     kit_id |-> kit_id,
     category_id |-> None,
     name |-> name,
     blueprint_path |-> None,
     price |-> price,
     quantity |-> quantity,
     quality |-> None,
     is_blueprint |-> FALSE,
     buy_limit |-> buy_limit,
     active |-> TRUE]

\* INSERT INTO shop_item (kind, kit_id, name, price, quantity, buy_limit, active)
\* VALUES ('kit', ...): the other columns take their defaults.
create_shop_item_kit(kit_id, name, price, quantity, buy_limit) ==
    [kind |-> "kit",
     library_id |-> None,
     kit_id |-> kit_id,
     category_id |-> None,
     name |-> name,
     blueprint_path |-> None,
     price |-> price,
     quantity |-> quantity,
     quality |-> None,
     is_blueprint |-> FALSE,
     buy_limit |-> buy_limit,
     active |-> TRUE]

(***************************************************************************)
(* str() of an integer and int() of such a string                          *)
(***************************************************************************)
DigitStr == <<"0", "1", "2", "3", "4", "5", "6", "7", "8", "9">>

RECURSIVE NatStr(_)
NatStr(n) ==
    IF n < 10 THEN DigitStr[n + 1]
    ELSE NatStr(n \div 10) \o DigitStr[(n % 10) + 1]

\* str(n), and an int under {...} in an f-string
IntStr(n) == IF n < 0 THEN "-" \o NatStr(-n) ELSE NatStr(n)

\* int(value) of a SelectOption value, which is the str() of a row id
RowIds == 0..99
IntOfStr(s) == CHOOSE n \in RowIds : IntStr(n) = s

(***************************************************************************)
(* Authorization: _admin_role_ids and is_shop_admin                        *)
(***************************************************************************)
\* A JSON scalar: a number or a string.
JInt(n) == [t |-> "int", n |-> n, s |-> ""]
JStr(s) == [t |-> "str", n |-> 0, s |-> s]
PyStr(x) == IF x.t = "int" THEN IntStr(x.n) ELSE x.s

\* Contents of admin_roles.json: a list of entries, each with or without "id".
AdminConfigs ==
    {<<>>,
     <<[has_id |-> TRUE, id |-> JInt(11)]>>,
     <<[has_id |-> TRUE, id |-> JStr("12")], [has_id |-> TRUE, id |-> JInt(13)]>>,
     <<[has_id |-> TRUE, id |-> JInt(11)], [has_id |-> FALSE, id |-> JInt(0)]>>}

\* interaction.user: its administrator permission and its role ids
Operators ==
    {[administrator |-> TRUE, roles |-> {}],
     [administrator |-> FALSE, roles |-> {11}],
     [administrator |-> FALSE, roles |-> {12, 14}],
     [administrator |-> FALSE, roles |-> {}]}

\* {str(r["id"]) for r in admin_roles}; any exception gives set()
_admin_role_ids ==
    IF \A i \in 1..Len(admin_roles) : admin_roles[i].has_id
    THEN {PyStr(admin_roles[i].id) : i \in 1..Len(admin_roles)}
    ELSE {}

\* A predicate that lets in whoever holds any role.
is_shop_admin_any_role(user) ==
    \/ user.administrator
    \/ {IntStr(r) : r \in user.roles} /= {}

\* the predicate of is_shop_admin
is_shop_admin(user) ==
    LET allowed == _admin_role_ids
        user_role_ids == {IntStr(r) : r \in user.roles}
    IN  \/ user.administrator
        \/ (allowed \cap user_role_ids) /= {}

(***************************************************************************)
(* The wizard: ShopAddView, its selects and ConfigModal                    *)
(***************************************************************************)
\* ShopAddView.__init__
NewView ==
    [kind |-> "single",
     selected_kit_id |-> None,
     selected_category_id |-> None,
     selected_item_library_id |-> None]

\* A wizard slot is "idle" while it holds no live instance: none was started,
\* or the last one can no longer be reached (its message lost its view on
\* commit, or its view timed out with no modal left open) and was dropped.
Dropped(w, how) ==
    /\ phase' = [phase EXCEPT ![w] = "idle"]
    /\ view' = [view EXCEPT ![w] = NewView]
    /\ options' = [options EXCEPT ![w] = {}]
    /\ modal' = [modal EXCEPT ![w] = FALSE]
    /\ finished' = [finished EXCEPT ![w] = FALSE]
    /\ outcome' = [outcome EXCEPT ![w] = how]

\* ShopCog.shop_add under @is_shop_admin(): a failed check raises
\* CheckFailure before the body runs; the body makes a ShopAddView and starts it.
shop_add(w, user) ==
    /\ phase[w] = "idle"
    /\ IF is_shop_admin(user)
       THEN /\ phase' = [phase EXCEPT ![w] = "KindSelect"]
            /\ view' = [view EXCEPT ![w] = NewView]
            /\ options' = [options EXCEPT ![w] = {"single", "kit"}]
            /\ modal' = [modal EXCEPT ![w] = FALSE]
            /\ finished' = [finished EXCEPT ![w] = FALSE]
            /\ outcome' = [outcome EXCEPT ![w] = "ok"]
       ELSE /\ outcome' = [outcome EXCEPT ![w] = "CheckFailure"]
            /\ UNCHANGED <<phase, view, options, modal, finished>>
    /\ UNCHANGED <<admin_roles, library, kits, shop_item, discounts, ad, cb>>

\* KindSelect.callback, then start_category_flow or start_kit_flow
KindSelect_callback(w, value) ==
    /\ phase[w] = "KindSelect"
    /\ ~finished[w]
    /\ value \in options[w]
    /\ view' = [view EXCEPT ![w].kind = value]
    /\ IF value = "single"
       THEN /\ phase' = [phase EXCEPT ![w] = "CategorySelect"]
            /\ options' = [options EXCEPT ![w] = {IntStr(id) : id \in search_categories}]
       ELSE /\ phase' = [phase EXCEPT ![w] = "KitSelect"]
            /\ options' = [options EXCEPT ![w] = {IntStr(id) : id \in list_kits}]
    /\ outcome' = [outcome EXCEPT ![w] = "ok"]
    /\ UNCHANGED <<admin_roles, library, kits, shop_item, modal, finished,
                   discounts, ad, cb>>

\* CategorySelect.callback, then show_items
CategorySelect_callback(w, value) ==
    /\ phase[w] = "CategorySelect"
    /\ ~finished[w]
    /\ value \in options[w]
    /\ LET selected == Some(IntOfStr(value))
       IN  /\ view' = [view EXCEPT ![w].selected_category_id = selected]
           /\ options' = [options EXCEPT
                  ![w] = {IntStr(id) : id \in list_items_by_category(selected)}]
    /\ phase' = [phase EXCEPT ![w] = "ItemSelect"]
    /\ outcome' = [outcome EXCEPT ![w] = "ok"]
    /\ UNCHANGED <<admin_roles, library, kits, shop_item, modal, finished,
                   discounts, ad, cb>>

\* ItemSelect.callback, then open_config_modal
ItemSelect_callback(w, value) ==
    /\ phase[w] = "ItemSelect"
    /\ ~finished[w]
    /\ value \in options[w]
    /\ view' = [view EXCEPT ![w].selected_item_library_id = Some(IntOfStr(value))]
    /\ modal' = [modal EXCEPT ![w] = TRUE]
    /\ outcome' = [outcome EXCEPT ![w] = "ok"]
    /\ UNCHANGED <<admin_roles, library, kits, shop_item, phase, options, finished,
                   discounts, ad, cb>>

\* KitSelect.callback, then open_config_modal
KitSelect_callback(w, value) ==
    /\ phase[w] = "KitSelect"
    /\ ~finished[w]
    /\ value \in options[w]
    /\ view' = [view EXCEPT ![w].selected_kit_id = Some(IntOfStr(value))]
    /\ modal' = [modal EXCEPT ![w] = TRUE]
    /\ outcome' = [outcome EXCEPT ![w] = "ok"]
    /\ UNCHANGED <<admin_roles, library, kits, shop_item, phase, options, finished,
                   discounts, ad, cb>>

\* The view's idle timeout (timeout=300) fires: the view stops dispatching its
\* components.  An open ConfigModal has no timeout and keeps its view.
View_timeout(w) ==
    /\ phase[w] /= "idle"
    /\ ~finished[w]
    /\ IF modal[w]
       THEN /\ finished' = [finished EXCEPT ![w] = TRUE]
            /\ UNCHANGED <<phase, view, options, modal, outcome>>
       ELSE Dropped(w, "none")
    /\ UNCHANGED <<admin_roles, library, kits, shop_item, discounts, ad, cb>>

\* What the operator types into the five fields of ConfigModal.
T_10 == <<"1", "0">>
T_false == <<"f", "a", "l", "s", "e">>

Forms ==
    {[price |-> T_10, quantity |-> <<"1">>, quality |-> <<>>,
      is_blueprint |-> T_false, buy_limit |-> <<>>],
     [price |-> <<" ", "1", "0", "0">>, quantity |-> <<>>, quality |-> <<"1", "0", "0">>,
      is_blueprint |-> <<"T", "r", "u", "e", " ">>, buy_limit |-> <<"3">>],
     [price |-> <<"1", ".", "5">>, quantity |-> <<"1">>, quality |-> <<>>,
      is_blueprint |-> T_false, buy_limit |-> <<>>],
     [price |-> T_10, quantity |-> <<"x">>, quality |-> <<>>,
      is_blueprint |-> T_false, buy_limit |-> <<>>],
     [price |-> T_10, quantity |-> <<"0">>, quality |-> <<>>,
      is_blueprint |-> T_false, buy_limit |-> <<"0">>],
     [price |-> <<"-", "5">>, quantity |-> <<"1">>, quality |-> <<>>,
      is_blueprint |-> T_false, buy_limit |-> <<>>]}

\* str(value).strip().lower() in ("true", "yes", "1", "y")
IsBlueprint(text) ==
    Lower(Strip(text)) \in
        {<<"t", "r", "u", "e">>, <<"y", "e", "s">>, <<"1">>, <<"y">>}

\* int(text) if text else None
OptInt(text) ==
    IF text /= <<>>
    THEN LET n == PyInt(text) IN [ok |-> n.ok, v |-> Some(n.v)]
    ELSE [ok |-> TRUE, v |-> None]

\* A quantity that falls back to 1 for any text that is no integer.
QtyInt_fallback(text) == IF PyInt(text).ok THEN PyInt(text) ELSE [ok |-> TRUE, v |-> 1]

\* int(self.quantity.value or 1)
QtyInt(text) == IF text /= <<>> THEN PyInt(text) ELSE [ok |-> TRUE, v |-> 1]

Raised(e) == [raised |-> e, row |-> None]
Built(row) == [raised |-> "", row |-> Some(row)]

\* ConfigModal.on_submit, single branch, up to the INSERT it issues
on_submit_single(v, f) ==
    LET lib == find_item_library(v.selected_item_library_id)
        price == PyInt(f.price)
        qty == QtyInt(f.quantity)
        qual == OptInt(f.quality)
        is_bp == IsBlueprint(f.is_blueprint)
        limit == OptInt(f.buy_limit)
    IN  IF lib = None THEN Raised("TypeError")
        ELSE IF ~price.ok \/ ~qty.ok \/ ~qual.ok \/ ~limit.ok THEN Raised("ValueError")
        ELSE Built(create_shop_item(v.selected_item_library_id, lib[1].category_id,
                                    lib[1].name, lib[1].blueprint_path,
                                    price.v, qty.v, qual.v, is_bp, limit.v))

\* ConfigModal.on_submit, kit branch, up to the INSERT it issues
on_submit_kit(v, f) ==
    LET kit == get_kit_by_id(v.selected_kit_id)
        price == PyInt(f.price)
        qty == QtyInt(f.quantity)
        limit == OptInt(f.buy_limit)
    IN  IF ~price.ok \/ ~qty.ok \/ ~limit.ok THEN Raised("ValueError")
        ELSE IF kit = None THEN Raised("TypeError")
        ELSE Built(create_shop_item_kit(v.selected_kit_id, kit[1].name,
                                        price.v, qty.v, limit.v))

\* if v.kind == "single": ... else: ...
on_submit(v, f) ==
    IF v.kind = "single" THEN on_submit_single(v, f) ELSE on_submit_kit(v, f)

\* ConfigModal.on_submit: the operator submits the pricing form, which closes
\* the modal.  An exception leaves the handler before the INSERT; the server
\* refuses an out-of-range number in strict mode and stores 0 for it otherwise.
\* On success the message is edited to carry no view.
ConfigModal_on_submit(w, f, strict) ==
    /\ modal[w]
    /\ Len(shop_item) < MaxRows
    /\ LET r == on_submit(view[w], f)
           raised == IF r.raised /= "" THEN r.raised
                     ELSE IF strict /\ OutOfRange(r.row[1]) THEN "DataError"
                     ELSE ""
       IN  IF raised /= ""
           THEN /\ shop_item' = shop_item
                /\ IF finished[w]
                   THEN Dropped(w, raised)
                   ELSE /\ modal' = [modal EXCEPT ![w] = FALSE]
                        /\ outcome' = [outcome EXCEPT ![w] = raised]
                        /\ UNCHANGED <<phase, view, options, finished>>
           ELSE /\ shop_item' = Append(shop_item, Stored(r.row[1]))
                /\ Dropped(w, "Committed")
    /\ UNCHANGED <<admin_roles, library, kits, discounts, ad, cb>>

\* A row of shop_item_library is deleted by another client of the database:
\* fk_shop_item_library is ON DELETE SET NULL.
DeleteLibraryItem(id) ==
    /\ \E r \in library : r.id = id
    /\ library' = {r \in library : r.id /= id}
    /\ shop_item' = [i \in 1..Len(shop_item) |->
                        IF shop_item[i].library_id = Some(id)
                        THEN [shop_item[i] EXCEPT !.library_id = None]
                        ELSE shop_item[i]]
    /\ UNCHANGED <<admin_roles, kits, phase, view, options, modal, finished,
                   outcome, discounts, ad, cb>>

\* A row of shop_kit is deleted: fk_shop_item_kit is ON DELETE SET NULL.
DeleteKit(id) ==
    /\ \E r \in kits : r.id = id
    /\ kits' = {r \in kits : r.id /= id}
    /\ shop_item' = [i \in 1..Len(shop_item) |->
                        IF shop_item[i].kit_id = Some(id)
                        THEN [shop_item[i] EXCEPT !.kit_id = None]
                        ELSE shop_item[i]]
    /\ UNCHANGED <<admin_roles, library, phase, view, options, modal, finished,
                   outcome, discounts, ad, cb>>

\* Frames of the pure functions while no call is modelled.
NoCall == [pc |-> "none"]

Init ==
    /\ admin_roles = <<[has_id |-> TRUE, id |-> JInt(11)]>>
    /\ library = LibraryRows
    /\ kits = KitRows
    /\ shop_item = <<>>
    /\ phase = [w \in Wizards |-> "idle"]
    /\ view = [w \in Wizards |-> NewView]
    /\ options = [w \in Wizards |-> {}]
    /\ modal = [w \in Wizards |-> FALSE]
    /\ finished = [w \in Wizards |-> FALSE]
    /\ outcome = [w \in Wizards |-> "none"]
    /\ discounts = <<>>
    /\ ad = NoCall
    /\ cb = NoCall

Next ==
    \/ \E w \in Wizards, user \in Operators : shop_add(w, user)
    \/ \E w \in Wizards, value \in {"single", "kit"} : KindSelect_callback(w, value)
    \/ \E w \in Wizards : \E value \in options[w] : CategorySelect_callback(w, value)
    \/ \E w \in Wizards : \E value \in options[w] : ItemSelect_callback(w, value)
    \/ \E w \in Wizards : \E value \in options[w] : KitSelect_callback(w, value)
    \/ \E w \in Wizards : View_timeout(w)
    \/ \E w \in Wizards, f \in Forms, strict \in BOOLEAN : ConfigModal_on_submit(w, f, strict)
    \/ \E r \in LibraryRows : DeleteLibraryItem(r.id)
    \/ \E r \in {x \in KitRows : x.active} : DeleteKit(r.id)

Spec == Init /\ [][Next]_vars

\* The wizard with admin_roles.json drawn from AdminConfigs.
InitAuth ==
    /\ admin_roles \in AdminConfigs
    /\ library = LibraryRows
    /\ kits = KitRows
    /\ shop_item = <<>>
    /\ phase = [w \in Wizards |-> "idle"]
    /\ view = [w \in Wizards |-> NewView]
    /\ options = [w \in Wizards |-> {}]
    /\ modal = [w \in Wizards |-> FALSE]
    /\ finished = [w \in Wizards |-> FALSE]
    /\ outcome = [w \in Wizards |-> "none"]
    /\ discounts = <<>>
    /\ ad = NoCall
    /\ cb = NoCall

SpecAuth == InitAuth /\ [][Next]_vars

(***************************************************************************)
(* Pricing: apply_discounts                                                *)
(***************************************************************************)
\* Entries of discounts.json: each key is present (Some) or missing (None).
Rule(type, target, amount) == [type |-> type, target |-> target, amount |-> amount]

Rules ==
    {Rule(Some("role"), Some("vip"), Some(JInt(50))),
     Rule(Some("event"), Some("xmas"), Some(JInt(50))),
     Rule(Some("role"), Some("mod"), Some(JInt(25))),
     Rule(Some("role"), Some("vip"), Some(JInt(150))),
     Rule(Some("event"), None, Some(JInt(50))),
     Rule(Some("role"), Some("vip"), Some(JStr("half"))),
     Rule(Some("coupon"), Some("vip"), Some(JInt(50))),
     Rule(None, Some("xmas"), Some(JInt(50))),
     Rule(Some("event"), Some("xmas"), None)}

RECURSIVE SeqsUpTo(_, _)
SeqsUpTo(S, n) ==
    IF n = 0 THEN {<<>>}
    ELSE LET shorter == SeqsUpTo(S, n - 1)
         IN  shorter \cup {Append(q, x) : q \in shorter, x \in S}

BasePrices == {0, 1, 2, 3, 6, 100}
RoleSets == {{}, {"vip"}, {"vip", "mod"}}
Events == {None, Some("xmas"), Some("easter")}

\* float(d.get("amount", 0)): a number, or a string that spells one; any other
\* string raises ValueError.
Percents == 0..200
PyFloat(amount) ==
    IF amount = None THEN [ok |-> TRUE, v |-> 0]
    ELSE IF amount[1].t = "int" THEN [ok |-> TRUE, v |-> amount[1].n]
    ELSE IF \E n \in Percents : IntStr(n) = amount[1].s
         THEN [ok |-> TRUE, v |-> CHOOSE n \in Percents : IntStr(n) = amount[1].s]
         ELSE [ok |-> FALSE, v |-> 0]

\* d.get("type") == "role" and d.get("target") in user_roles
RoleMatch(d, user_roles) ==
    /\ d.type = Some("role")
    /\ d.target /= None
    /\ d.target[1] \in user_roles

\* d.get("type") == "event" and d.get("target") == current_event
EventMatch(d, current_event) ==
    /\ d.type = Some("event")
    /\ d.target = current_event

\* round(price) of price = num / den, den > 0: the nearest integer, a tie
\* going to the even one.
Rounding_half_up(num, den) ==
    IF 2 * (num % den) >= den THEN (num \div den) + 1 ELSE num \div den

round(num, den) ==
    LET q == num \div den
        r == num % den
    IN  IF 2 * r > den THEN q + 1
        ELSE IF 2 * r < den THEN q
        ELSE IF q % 2 = 0 THEN q ELSE q + 1

\* price = float(base_price): the float is the exact fraction num / den.  The
\* percents drawn here make every factor 1.0 - amount / 100.0 a multiple of
\* 1/4, for which the double-precision product is exact.
apply_discounts_call(user_roles, base_price, current_event) ==
    [pc |-> "for", user_roles |-> user_roles, base_price |-> base_price,
     current_event |-> current_event, i |-> 1, num |-> base_price, den |-> 1,
     result |-> 0]

\* One pass of "for d in discounts": the role test, then the event test, each
\* multiplying price by (1.0 - float(amount) / 100.0) when it matches.
apply_discounts_for ==
    /\ ad.pc = "for"
    /\ ad.i <= Len(discounts)
    /\ LET d == discounts[ad.i]
           amount == PyFloat(d.amount)
           matches == RoleMatch(d, ad.user_roles) \/ EventMatch(d, ad.current_event)
       IN  IF ~matches
           THEN ad' = [ad EXCEPT !.i = ad.i + 1]
           ELSE IF ~amount.ok
           THEN ad' = [ad EXCEPT !.pc = "ValueError"]
           ELSE ad' = [ad EXCEPT !.i = ad.i + 1,
                                 !.num = ad.num * (100 - amount.v),
                                 !.den = ad.den * 100]
    /\ UNCHANGED <<admin_roles, library, kits, shop_item, phase, view, options,
                   modal, finished, outcome, discounts, cb>>

\* return int(round(price))
apply_discounts_return ==
    /\ ad.pc = "for"
    /\ ad.i > Len(discounts)
    /\ ad' = [ad EXCEPT !.pc = "return", !.result = round(ad.num, ad.den)]
    /\ UNCHANGED <<admin_roles, library, kits, shop_item, phase, view, options,
                   modal, finished, outcome, discounts, cb>>

InitPrice ==
    /\ admin_roles = <<>>
    /\ library = LibraryRows
    /\ kits = KitRows
    /\ shop_item = <<>>
    /\ phase = [w \in Wizards |-> "idle"]
    /\ view = [w \in Wizards |-> NewView]
    /\ options = [w \in Wizards |-> {}]
    /\ modal = [w \in Wizards |-> FALSE]
    /\ finished = [w \in Wizards |-> FALSE]
    /\ outcome = [w \in Wizards |-> "none"]
    /\ discounts \in SeqsUpTo(Rules, MaxRules)
    /\ \E user_roles \in RoleSets, base_price \in BasePrices, current_event \in Events :
           ad = apply_discounts_call(user_roles, base_price, current_event)
    /\ cb = NoCall

NextPrice ==
    \/ apply_discounts_for
    \/ apply_discounts_return

SpecPrice == InitPrice /\ [][NextPrice]_vars

(***************************************************************************)
(* Command builders: command_builders.py                                   *)
(***************************************************************************)
\* A give-item command whose blueprint flag is the wrong way round.
build_giveitem_command_flipped(player_id, item, qty, quality, bp) ==
    "scriptcommand giveitemtoplayer " \o IntStr(player_id) \o " " \o item \o " "
        \o IntStr(qty) \o " " \o IntStr(quality) \o " " \o IntStr(IF bp THEN 0 ELSE 1)

\* bp_flag = 1 if bp else 0; the two f-string pieces, concatenated
build_giveitem_command(player_id, item, qty, quality, bp) ==
    LET bp_flag == IF bp THEN 1 ELSE 0
    IN  ("scriptcommand giveitemtoplayer " \o IntStr(player_id) \o " ")
            \o (item \o " " \o IntStr(qty) \o " " \o IntStr(quality) \o " "
                    \o IntStr(bp_flag))

PlayerIds == {7, 12, 105}
ItemRefs == {"Item_X", "Rifle"}
Quantities == {1, 3, 25}
Qualities == {0, 100}

\* The frame of a call of build_giveitem_command.
giveitem_call(player_id, item, qty, quality, bp) ==
    [pc |-> "call", fn |-> "build_giveitem_command",
     args |-> [player_id |-> player_id, item |-> item, qty |-> qty,
               quality |-> quality, bp |-> bp],
     result |-> ""]

build_giveitem_command_run ==
    /\ cb.pc = "call"
    /\ cb.fn = "build_giveitem_command"
    /\ cb' = [cb EXCEPT !.pc = "return",
                        !.result = build_giveitem_command(cb.args.player_id,
                                       cb.args.item, cb.args.qty, cb.args.quality,
                                       cb.args.bp)]
    /\ UNCHANGED <<admin_roles, library, kits, shop_item, phase, view, options,
                   modal, finished, outcome, discounts, ad>>

\* The names command_builders.py binds at module level (lines 1-4 and its defs).
ModuleNames ==
    {"json", "os", "db", "dataclass", "List", "Literal", "Optional", "Dict",
     "Iterable", "build_giveitem_command", "build_spawn_dino_command",
     "build_kit_commands", "build_kit_string"}

\* def build_spawn_dino_command(eos_id, item, lvl, breedable): the names the
\* def line binds, annotations aside.
build_spawn_dino_command_params == <<"eos_id", "item", "lvl", "breedable">>

\* A call binds its positional arguments to the parameters in order and its
\* keyword arguments by name.  A keyword that names no parameter, a parameter
\* given twice and a parameter left without a value are each a TypeError.
Bind(params, positional, keywords) ==
    LET names == {params[k] : k \in 1..Len(params)}
        index(n) == CHOOSE k \in 1..Len(params) : params[k] = n
        ok == /\ Len(positional) <= Len(params)
              /\ DOMAIN keywords \subseteq names
              /\ \A k \in 1..Len(params) :
                     (k <= Len(positional)) /= (params[k] \in DOMAIN keywords)
    IN  [ok |-> ok,
         locals |-> IF ok
                    THEN [n \in names |->
                             IF index(n) <= Len(positional)
                             THEN positional[index(n)]
                             ELSE keywords[n]]
                    ELSE <<>>]

\* The body of build_spawn_dino_command in the frame `locals`:
\*   b_flag = "0" if breedable else "1"
\*   return f"scriptcommand SpawnDinoinBall " f"-p={eos_id} -t={dino} ..."
\* The f-string reads the name dino, which is looked up among the locals and
\* then among the module's names; a name found in neither raises NameError.
build_spawn_dino_command(locals) ==
    LET b_flag == IF locals.breedable THEN "0" ELSE "1"
    IN  IF "dino" \notin (DOMAIN locals \cup ModuleNames)
        THEN [raised |-> "NameError", value |-> ""]
        ELSE [raised |-> "none",
              value |-> "scriptcommand SpawnDinoinBall "
                            \o ("-p=" \o locals.eos_id \o " -t=" \o locals.dino
                                    \o " -l=" \o IntStr(locals.lvl)
                                    \o " -f=1 -i=1 -b=" \o b_flag \o " -h=1")]

TargetIds == {"eos123", "eos9"}
DinoRefs == {"Dino_Y", "Rex"}
Levels == {0, 150, 225}

\* The frame of a call build_spawn_dino_command(eos_id, dino, lvl, breedable)
\* with positional arguments.
spawn_dino_call(eos_id, dino, lvl, breedable) ==
    [pc |-> "call", fn |-> "build_spawn_dino_command",
     args |-> <<eos_id, dino, lvl, breedable>>,
     result |-> ""]

build_spawn_dino_command_run ==
    /\ cb.pc = "call"
    /\ cb.fn = "build_spawn_dino_command"
    /\ LET bound == Bind(build_spawn_dino_command_params, cb.args, <<>>)
           r == build_spawn_dino_command(bound.locals)
       IN  cb' = IF ~bound.ok THEN [cb EXCEPT !.pc = "TypeError"]
                 ELSE IF r.raised /= "none" THEN [cb EXCEPT !.pc = r.raised]
                 ELSE [cb EXCEPT !.pc = "return", !.result = r.value]
    /\ UNCHANGED <<admin_roles, library, kits, shop_item, phase, view, options,
                   modal, finished, outcome, discounts, ad>>

\* A KitComponent: kind and ref, and the optional fields, None when not set.
KitComponent(kind, ref, player_id, eos_id, qty, quality, lvl, breedable, is_bp) ==
    [kind |-> kind, ref |-> ref, player_id |-> player_id, eos_id |-> eos_id,
     qty |-> qty, quality |-> quality, lvl |-> lvl, breedable |-> breedable,
     is_bp |-> is_bp]

Components ==
    {KitComponent("item", "Rifle", None, None, None, None, None, None, None),
     KitComponent("item", "Item_X", Some(0), None, Some(0), Some(0), None, None, Some(FALSE)),
     KitComponent("item", "Item_X", Some(12), None, Some(3), Some(100), None, None, Some(TRUE)),
     KitComponent("dino", "Dino_Y", None, None, None, None, None, None, None),
     KitComponent("dino", "Rex", None, Some(""), None, None, Some(0), Some(FALSE), None),
     KitComponent("dino", "Dino_Y", None, Some("eos123"), None, None, Some(150), Some(TRUE), None),
     KitComponent("potion", "Elixir", None, None, None, None, None, None, None)}

\* A defaults dict: each key holds None when the dict lacks it.  The values
\* drawn are numbers and booleans.
Dict(qty, quality, is_bp, lvl, breedable) ==
    [qty |-> qty, quality |-> quality, is_bp |-> is_bp, lvl |-> lvl,
     breedable |-> breedable]

EmptyDict == Dict(None, None, None, None, None)

DefaultsDicts ==
    {None,
     Some(EmptyDict),
     Some(Dict(Some(5), Some(9), Some(TRUE), Some(50), Some(FALSE))),
     Some(Dict(Some(0), None, Some(FALSE), Some(0), None))}

KitPlayerIds == {None, Some(0), Some(7)}
KitTargetIds == {None, Some("eos9")}
Delimiters == {" | ", ";"}

\* x or y, for an optional number and for an optional string: x unless it is
\* None, 0 or "".
OrInt(x, y) == IF x /= None /\ x[1] /= 0 THEN x ELSE y
OrStr(x, y) == IF x /= None /\ x[1] /= "" THEN x ELSE y

\* d.get(key, default)
Get(d, key, default) == IF d[key] = None THEN default ELSE d[key][1]

\* own if own is not None else d.get(key, default)
OwnOrGet(own, d, key, default) ==
    IF own /= None THEN own[1] ELSE Get(d, key, default)

\* delimiter.join(strs)
RECURSIVE Join(_, _)
Join(delimiter, strs) ==
    IF strs = <<>> THEN ""
    ELSE IF Len(strs) = 1 THEN strs[1]
    ELSE strs[1] \o delimiter \o Join(delimiter, Tail(strs))

\* The frame of build_kit_commands(components, player_id=, eos_id=, defaults=)
\* at the head of its loop, d = defaults or {} and cmds = [] done; fn names
\* the function the caller called, build_kit_commands itself or
\* build_kit_string, which calls it with its own arguments.  callee holds the
\* keyword arguments of the builder call made last.
kit_call(fn, args) ==
    [pc |-> "for", fn |-> fn, args |-> args,
     d |-> IF args.defaults = None THEN EmptyDict ELSE args.defaults[1],
     cmds |-> <<>>, i |-> 1, callee |-> [fn |-> "none"], message |-> "",
     result |-> <<>>]

\* The keyword arguments of lines 37-40 and of lines 46-50.
dino_kwargs(c, eos_id, d) ==
    [eos_id |-> OrStr(c.eos_id, OrStr(eos_id, Some("")))[1],
     dino |-> c.ref,
     lvl |-> OwnOrGet(c.lvl, d, "lvl", 225),
     breedable |-> OwnOrGet(c.breedable, d, "breedable", TRUE)]

item_kwargs(c, player_id, d) ==
    [player_id |-> OrInt(c.player_id, OrInt(player_id, Some(1)))[1],
     item |-> c.ref,
     qty |-> OwnOrGet(c.qty, d, "qty", 1),
     quality |-> OwnOrGet(c.quality, d, "quality", 1),
     bp |-> OwnOrGet(c.is_bp, d, "is_bp", FALSE)]

\* One pass of "for c in components".
build_kit_commands_for ==
    /\ cb.pc = "for"
    /\ cb.i <= Len(cb.args.components)
    /\ LET c == cb.args.components[cb.i]
       IN  IF c.kind = "dino"
           THEN LET kwargs == dino_kwargs(c, cb.args.eos_id, cb.d)
                    bound == Bind(build_spawn_dino_command_params, <<>>, kwargs)
                    r == build_spawn_dino_command(bound.locals)
                    called == [cb EXCEPT !.callee = [fn |-> "build_spawn_dino_command",
                                                     kwargs |-> kwargs]]
                IN  cb' = IF ~bound.ok THEN [called EXCEPT !.pc = "TypeError"]
                          ELSE IF r.raised /= "none" THEN [called EXCEPT !.pc = r.raised]
                          ELSE [called EXCEPT !.cmds = Append(@, r.value),
                                              !.i = @ + 1]
           ELSE IF c.kind = "item"
           THEN LET kwargs == item_kwargs(c, cb.args.player_id, cb.d)
                    cmd == build_giveitem_command(kwargs.player_id, kwargs.item,
                               kwargs.qty, kwargs.quality, kwargs.bp)
                IN  cb' = [cb EXCEPT !.callee = [fn |-> "build_giveitem_command",
                                                 kwargs |-> kwargs],
                                     !.cmds = Append(@, cmd),
                                     !.i = @ + 1]
           ELSE cb' = [cb EXCEPT !.pc = "ValueError",
                                 !.message = "Unknown component kind: " \o c.kind]
    /\ UNCHANGED <<admin_roles, library, kits, shop_item, phase, view, options,
                   modal, finished, outcome, discounts, ad>>

\* return cmds
build_kit_commands_return ==
    /\ cb.pc = "for"
    /\ cb.fn = "build_kit_commands"
    /\ cb.i > Len(cb.args.components)
    /\ cb' = [cb EXCEPT !.pc = "return", !.result = cb.cmds]
    /\ UNCHANGED <<admin_roles, library, kits, shop_item, phase, view, options,
                   modal, finished, outcome, discounts, ad>>

\* build_kit_string: return delimiter.join(build_kit_commands(...))
build_kit_string_return ==
    /\ cb.pc = "for"
    /\ cb.fn = "build_kit_string"
    /\ cb.i > Len(cb.args.components)
    /\ cb' = [cb EXCEPT !.pc = "return",
                        !.result = Join(cb.args.delimiter, cb.cmds)]
    /\ UNCHANGED <<admin_roles, library, kits, shop_item, phase, view, options,
                   modal, finished, outcome, discounts, ad>>

InitCmd ==
    /\ admin_roles = <<>>
    /\ library = LibraryRows
    /\ kits = KitRows
    /\ shop_item = <<>>
    /\ phase = [w \in Wizards |-> "idle"]
    /\ view = [w \in Wizards |-> NewView]
    /\ options = [w \in Wizards |-> {}]
    /\ modal = [w \in Wizards |-> FALSE]
    /\ finished = [w \in Wizards |-> FALSE]
    /\ outcome = [w \in Wizards |-> "none"]
    /\ discounts = <<>>
    /\ ad = NoCall
    /\ \/ \E player_id \in PlayerIds, item \in ItemRefs, qty \in Quantities,
             quality \in Qualities, bp \in BOOLEAN :
              cb = giveitem_call(player_id, item, qty, quality, bp)
       \/ \E eos_id \in TargetIds, dino \in DinoRefs, lvl \in Levels,
             breedable \in BOOLEAN :
              cb = spawn_dino_call(eos_id, dino, lvl, breedable)
       \/ \E components \in SeqsUpTo(Components, MaxComponents),
             player_id \in KitPlayerIds, eos_id \in KitTargetIds,
             defaults \in DefaultsDicts :
              \/ cb = kit_call("build_kit_commands",
                              [components |-> components, player_id |-> player_id,
                               eos_id |-> eos_id, defaults |-> defaults])
              \/ \E delimiter \in Delimiters :
                     cb = kit_call("build_kit_string",
                              [components |-> components, player_id |-> player_id,
                               eos_id |-> eos_id, defaults |-> defaults,
                               delimiter |-> delimiter])

NextCmd ==
    \/ build_giveitem_command_run
    \/ build_spawn_dino_command_run
    \/ build_kit_commands_for
    \/ build_kit_commands_return
    \/ build_kit_string_return

SpecCmd == InitCmd /\ [][NextCmd]_vars

(***************************************************************************)
(* Properties of the wizard                                                *)
(***************************************************************************)
\* A step in which wizard w's pricing form is submitted: only
\* ConfigModal.on_submit closes an open modal.
Submitted(w) == modal[w] /\ ~modal'[w]

NoRowHasBothReferences ==
    \A i \in 1..Len(shop_item) :
        ~(shop_item[i].library_id /= None /\ shop_item[i].kit_id /= None)

WrittenRowMatchesBranch(w) ==
    LET row == shop_item'[Len(shop_item')]
    IN  /\ phase[w] = "ItemSelect" =>
              /\ row.kind = "single"
              /\ row.library_id /= None
              /\ row.library_id = view[w].selected_item_library_id
              /\ row.kit_id = None
        /\ phase[w] = "KitSelect" =>
              /\ row.kind = "kit"
              /\ row.kit_id /= None
              /\ row.kit_id = view[w].selected_kit_id
              /\ row.library_id = None
              /\ row.category_id = None
        /\ phase[w] \in {"ItemSelect", "KitSelect"}

\* C1: whatever the interleaving of wizard instances, a row written from the
\* item select is a single row with library_id set and kit_id unset, a row
\* written from the kit select is a kit row with kit_id set and library_id and
\* category_id unset, and no row of shop_item ever has both library_id and
\* kit_id set.
C1_OneReferenceKind ==
    [][/\ NoRowHasBothReferences'
       /\ \A w \in Wizards :
              (Submitted(w) /\ Len(shop_item') > Len(shop_item))
                  => WrittenRowMatchesBranch(w)]_vars

C1_Witness ==
    /\ \E i \in 1..Len(shop_item) :
           shop_item[i].kind = "single" /\ shop_item[i].library_id = Some(12)
    /\ \E i \in 1..Len(shop_item) :
           shop_item[i].kind = "kit" /\ shop_item[i].kit_id = Some(3)

\* The row the wizard's selection names is gone from the Catalog Store.
ChoiceMissing(w) ==
    IF phase[w] = "ItemSelect"
    THEN \A r \in library : Some(r.id) /= view[w].selected_item_library_id
    ELSE \A r \in kits : Some(r.id) /= view[w].selected_kit_id

\* C2: a pricing form submitted after the chosen library item or kit has been
\* deleted ends with a not-found report and writes no row.
C2_MissingChoiceReportsNotFound ==
    [][\A w \in Wizards :
           (Submitted(w) /\ ChoiceMissing(w))
               => (outcome'[w] = "NotFound" /\ shop_item' = shop_item)]_vars

\* Texts that are no integer, and forms whose price or quantity is one.
NonIntegerTexts == {<<"1", ".", "5">>, <<"x">>, <<>>}

BadPriceOrQuantity(f) ==
    \/ f.price \in NonIntegerTexts
    \/ f.quantity /= <<>> /\ f.quantity \in NonIntegerTexts

\* C3: a submission whose price or quantity is no integer raises before the
\* INSERT: shop_item is the same after it as before, on either branch.
C3_NonIntegerRejectedBeforeWrite ==
    [][\A w \in Wizards, f \in Forms, strict \in BOOLEAN :
           (BadPriceOrQuantity(f) /\ ConfigModal_on_submit(w, f, strict))
               => /\ shop_item' = shop_item
                  /\ outcome'[w] \in {"ValueError", "TypeError"}]_vars

C3_Witness ==
    /\ shop_item /= <<>>
    /\ \E w \in Wizards : phase[w] = "ItemSelect" /\ outcome[w] = "ValueError"
    /\ \E w \in Wizards : phase[w] = "KitSelect" /\ outcome[w] = "ValueError"

\* C4: every row of shop_item has a price >= 0, a quantity >= 1 and a buy_limit
\* that is absent or >= 1.
C4_RowsWellPriced ==
    \A i \in 1..Len(shop_item) :
        /\ shop_item[i].price >= 0
        /\ shop_item[i].quantity >= 1
        /\ shop_item[i].buy_limit = None \/ shop_item[i].buy_limit[1] >= 1

\* The operator holds the administrator permission or a role that an entry of
\* admin_roles.json names.
DecimalOf ==
    (0 :> "0") @@ (1 :> "1") @@ (3 :> "3") @@ (5 :> "5") @@ (7 :> "7")
    @@ (9 :> "9") @@ (11 :> "11") @@ (12 :> "12") @@ (13 :> "13")
    @@ (14 :> "14") @@ (25 :> "25") @@ (50 :> "50") @@ (100 :> "100")
    @@ (105 :> "105") @@ (150 :> "150") @@ (225 :> "225")

Names(x, role) ==
    \/ x.t = "int" /\ x.n = role
    \/ x.t = "str" /\ x.s = DecimalOf[role]

Entitled(user) ==
    \/ user.administrator
    \/ \E role \in user.roles, i \in 1..Len(admin_roles) :
           admin_roles[i].has_id /\ Names(admin_roles[i].id, role)

\* C5: a wizard leaves idle for the kind select only on /shop-add by an
\* entitled operator; /shop-add by any other operator raises CheckFailure,
\* starts no wizard and leaves the Catalog Store as it was.
C5_OnlyAdminsStart ==
    [][\A w \in Wizards :
           /\ \A user \in Operators :
                  (shop_add(w, user) /\ ~Entitled(user))
                      => /\ phase'[w] = "idle"
                         /\ outcome'[w] = "CheckFailure"
                         /\ <<library, kits, shop_item>>' = <<library, kits, shop_item>>
           /\ (phase[w] = "idle" /\ phase'[w] /= "idle")
                  => /\ phase'[w] = "KindSelect"
                     /\ \E user \in Operators : Entitled(user) /\ shop_add(w, user)]_vars

C5_Witness ==
    /\ \E w \in Wizards : phase[w] = "idle" /\ outcome[w] = "CheckFailure"
    /\ \E w \in Wizards : phase[w] = "KindSelect"
    /\ Len(admin_roles) = 2

\* C6: a wizard whose view has timed out writes no row afterwards, also when
\* its pricing form was open at the timeout and is submitted later.
C6_TimedOutNeverWrites ==
    [][\A w \in Wizards :
           (finished[w] /\ Submitted(w)) => shop_item' = shop_item]_vars

(***************************************************************************)
(* Properties of apply_discounts                                           *)
(***************************************************************************)
\* C7: apply_discounts returns no negative price.
C7_NeverNegative == ad.pc = "return" => ad.result >= 0

\* A discount entry that lacks a key, has a type other than role and event,
\* or an amount that is no number (every string amount drawn in Rules is none).
Malformed(d) ==
    \/ d.type \notin {Some("role"), Some("event")}
    \/ d.target = None
    \/ d.amount = None
    \/ d.amount[1].t = "str"

PercentOf(d) == d.amount[1].n

WellFormed(d) == ~Malformed(d) /\ PercentOf(d) \in 0..100

\* The rule applies to this buyer and event.
Applies(d) ==
    \/ d.type = Some("role") /\ d.target[1] \in ad.user_roles
    \/ d.type = Some("event") /\ ad.current_event /= None
           /\ d.target[1] = ad.current_event[1]

\* base_price * (1 - amount/100) for each rule among the first n that is in
\* the set counted and applies, as the fraction P[1] / P[2].
RECURSIVE Discounted(_, _)
Discounted(n, counted) ==
    IF n = 0 THEN <<ad.base_price, 1>>
    ELSE LET before == Discounted(n - 1, counted)
             d == discounts[n]
         IN  IF d \in counted /\ Applies(d)
             THEN <<before[1] * (100 - PercentOf(d)), before[2] * 100>>
             ELSE before

\* n is a nearest integer to P[1] / P[2].
Nearest(n, P) ==
    LET twice == 2 * (P[1] - n * P[2])
    IN  -P[2] <= twice /\ twice <= P[2]

\* n is P[1] / P[2] rounded to the nearest integer, a half going up.
IsHalfUp(n, P) ==
    Nearest(n, P) /\ 2 * (P[1] - n * P[2]) /= P[2]

\* n is P[1] / P[2] rounded to the nearest integer, a half going to the even
\* neighbour.
IsHalfEven(n, P) ==
    /\ Nearest(n, P)
    /\ (2 * (P[1] - n * P[2]) \in {P[2], -P[2]}) => n % 2 = 0

AllWellFormed == \A k \in 1..Len(discounts) : WellFormed(discounts[k])

\* C8 as stated: for a well-formed list the result is the compounded price
\* rounded to the nearest integer with halves rounded up.
C8_CompoundedHalfUp ==
    (AllWellFormed /\ ad.pc = "return")
        => IsHalfUp(ad.result, Discounted(Len(discounts), {d \in Rules : WellFormed(d)}))

\* C8, amended: for a well-formed list apply_discounts raises nothing and
\* returns base_price times (1 - amount/100) for each applying rule, rounded to
\* the nearest integer with a half going to the even neighbour.
C8_CompoundedHalfEven ==
    AllWellFormed
        => /\ ad.pc /= "ValueError"
           /\ ad.pc = "return"
                  => IsHalfEven(ad.result, Discounted(Len(discounts), {d \in Rules : WellFormed(d)}))

\* Two applying 50% rules on 6: 1.5 rounds to 2; on 2: 0.5 rounds to 0.
C8_Witness ==
    /\ ad.pc = "return"
    /\ discounts = <<Rule(Some("role"), Some("vip"), Some(JInt(50))),
                     Rule(Some("event"), Some("xmas"), Some(JInt(50)))>>
    /\ ad.user_roles = {"vip"}
    /\ ad.current_event = Some("xmas")
    /\ ad.base_price = 6
    /\ ad.result = 2

\* C9: apply_discounts raises nothing, and a malformed entry counts for
\* nothing: the result is the one the other entries give.
C9_MalformedSkipped ==
    /\ ad.pc /= "ValueError"
    /\ ad.pc = "return"
           => IsHalfEven(ad.result, Discounted(Len(discounts), {d \in Rules : ~Malformed(d)}))

(***************************************************************************)
(* Properties of the command builders                                      *)
(***************************************************************************)
GiveItemReturned == cb.pc = "return" /\ cb.fn = "build_giveitem_command"

GiveItemFields ==
    DecimalOf[cb.args.player_id] \o " " \o cb.args.item \o " "
        \o DecimalOf[cb.args.qty] \o " " \o DecimalOf[cb.args.quality] \o " "
        \o (IF cb.args.bp THEN "1" ELSE "0")

IsExampleCall ==
    cb.args = [player_id |-> 7, item |-> "Item_X", qty |-> 3, quality |-> 100,
               bp |-> TRUE]

\* C10 as stated: the command is exactly
\* "giveitemtoplayer <player_id> <item> <qty> <quality> <bp_flag>".
C10_GiveItemBare ==
    GiveItemReturned
        => /\ cb.result = "giveitemtoplayer " \o GiveItemFields
           /\ IsExampleCall => cb.result = "giveitemtoplayer 7 Item_X 3 100 1"

\* C10, amended: the command is exactly "scriptcommand giveitemtoplayer
\* <player_id> <item> <qty> <quality> <bp_flag>" with bp_flag 1 for a blueprint
\* and 0 otherwise.
C10_GiveItemScriptCommand ==
    GiveItemReturned
        => /\ cb.result = "scriptcommand giveitemtoplayer " \o GiveItemFields
           /\ IsExampleCall
                  => cb.result = "scriptcommand giveitemtoplayer 7 Item_X 3 100 1"

C10_Witness ==
    /\ GiveItemReturned
    /\ IsExampleCall
    /\ cb.result = "scriptcommand giveitemtoplayer 7 Item_X 3 100 1"

DinoReturned == cb.fn = "build_spawn_dino_command" /\ cb.pc /= "call"

\* C11: build_spawn_dino_command returns, for every target id, dino
\* identifier, level and breedable flag, exactly "SpawnDinoinBall
\* -p=<target_id> -t=<dino_identifier> -l=<level> -f=1 -i=1 -b=<breed_flag>
\* -h=1", breed_flag being 0 when breedable and 1 when not.
C11_SpawnDinoCommand ==
    DinoReturned
        => /\ cb.pc = "return"
           /\ cb.result = "SpawnDinoinBall -p=" \o cb.args[1] \o " -t=" \o cb.args[2]
                              \o " -l=" \o DecimalOf[cb.args[3]] \o " -f=1 -i=1 -b="
                              \o (IF cb.args[4] THEN "0" ELSE "1") \o " -h=1"

KitCall == cb.fn \in {"build_kit_commands", "build_kit_string"}

KitFailed == cb.pc \in {"ValueError", "TypeError", "NameError"}

KnownKind(c) == c.kind \in {"item", "dino"}

AllKnownKinds ==
    \A i \in 1..Len(cb.args.components) : KnownKind(cb.args.components[i])

\* The give-item commands and the dino commands for a reference, over the
\* field values the drawn calls can resolve to.
ItemCommands(ref) ==
    {"scriptcommand giveitemtoplayer " \o DecimalOf[p] \o " " \o ref \o " "
         \o DecimalOf[q] \o " " \o DecimalOf[ql] \o " " \o b :
       p \in {0, 1, 7, 12}, q \in {0, 1, 3, 5}, ql \in {0, 1, 9, 100}, b \in {"0", "1"}}

DinoCommands(ref) ==
    {"scriptcommand SpawnDinoinBall -p=" \o e \o " -t=" \o ref \o " -l="
         \o DecimalOf[l] \o " -f=1 -i=1 -b=" \o b \o " -h=1" :
       e \in {"", "eos9", "eos123"}, l \in {0, 50, 150, 225}, b \in {"0", "1"}}

\* cmds has one command per component, the i-th built by the builder of the
\* i-th component's kind for its reference.
OneCommandEach(cmds) ==
    /\ Len(cmds) = Len(cb.args.components)
    /\ \A i \in 1..Len(cmds) :
           LET c == cb.args.components[i]
           IN  /\ c.kind = "item" => cmds[i] \in ItemCommands(c.ref)
               /\ c.kind = "dino" => cmds[i] \in DinoCommands(c.ref)

\* The first n of cmds, the delimiter between neighbours.
RECURSIVE Joined(_, _, _)
Joined(cmds, n, delimiter) ==
    IF n = 0 THEN ""
    ELSE IF n = 1 THEN cmds[1]
    ELSE Joined(cmds, n - 1, delimiter) \o delimiter \o cmds[n]

\* C12: for a component sequence whose kinds are all item or dino,
\* build_kit_commands fails nowhere and returns one command per component, the
\* i-th built for the i-th component by the builder of its kind, and
\* build_kit_string returns those commands joined by the delimiter in that
\* order.
C12_OneCommandPerComponentInOrder ==
    KitCall /\ AllKnownKinds
        => /\ ~KitFailed
           /\ cb.pc = "return" /\ cb.fn = "build_kit_commands"
                  => OneCommandEach(cb.result)
           /\ cb.pc = "return" /\ cb.fn = "build_kit_string"
                  => /\ OneCommandEach(cb.cmds)
                     /\ cb.result = Joined(cb.cmds, Len(cb.cmds), cb.args.delimiter)

\* The position of the first component whose kind is neither item nor dino.
FirstUnknown ==
    CHOOSE i \in 1..Len(cb.args.components) :
        /\ ~KnownKind(cb.args.components[i])
        /\ \A j \in 1..(i - 1) : KnownKind(cb.args.components[j])

\* C13: when some component's kind is neither item nor dino, wherever it
\* stands, the call (of build_kit_commands, or of build_kit_string) never
\* returns and never passes that component: once the loop stops, it has stopped
\* at that component with the unknown-kind error.
C13_UnknownKindFails ==
    KitCall /\ ~AllKnownKinds
        => /\ cb.pc /= "return"
           /\ cb.i <= FirstUnknown
           /\ cb.pc /= "for"
                  => /\ cb.pc = "ValueError"
                     /\ cb.i = FirstUnknown
                     /\ cb.message = "Unknown component kind: "
                                         \o cb.args.components[FirstUnknown].kind

\* The component the last builder call was made for: the one the loop stands
\* at when that call failed, the one before it otherwise.
LastBuilt == IF cb.pc \in {"TypeError", "NameError"} THEN cb.i ELSE cb.i - 1

\* The component's own value when present, otherwise the kit-level one when
\* present, otherwise the hard default.
Resolve(own, kit_level, hard) ==
    IF own /= None THEN own[1]
    ELSE IF kit_level /= None THEN kit_level[1]
    ELSE hard

\* The kit-level default the caller passed for a key of defaults, if any.
KitLevel(key) ==
    IF cb.args.defaults = None THEN None ELSE cb.args.defaults[1][key]

\* C14: every field a builder is called with for a component is the
\* component's own value when present (0, false and "" included), otherwise
\* the kit-level default the caller passed, otherwise the hard default (qty 1,
\* quality 1, is_bp false, lvl 225, breedable true; player_id 1 and target id
\* "" when neither level gives one); the give-item command built carries the
\* fields so resolved.
C14_FieldPrecedence ==
    KitCall /\ cb.callee.fn /= "none"
        => LET c == cb.args.components[LastBuilt]
               k == cb.callee.kwargs
           IN  /\ cb.callee.fn = "build_giveitem_command"
                      => /\ k.player_id = Resolve(c.player_id, cb.args.player_id, 1)
                         /\ k.qty = Resolve(c.qty, KitLevel("qty"), 1)
                         /\ k.quality = Resolve(c.quality, KitLevel("quality"), 1)
                         /\ k.bp = Resolve(c.is_bp, KitLevel("is_bp"), FALSE)
                         /\ cb.cmds[LastBuilt]
                                = "scriptcommand giveitemtoplayer "
                                      \o DecimalOf[Resolve(c.player_id, cb.args.player_id, 1)]
                                      \o " " \o c.ref \o " "
                                      \o DecimalOf[Resolve(c.qty, KitLevel("qty"), 1)]
                                      \o " "
                                      \o DecimalOf[Resolve(c.quality, KitLevel("quality"), 1)]
                                      \o " "
                                      \o (IF Resolve(c.is_bp, KitLevel("is_bp"), FALSE)
                                          THEN "1" ELSE "0")
               /\ cb.callee.fn = "build_spawn_dino_command"
                      => /\ k.eos_id = Resolve(c.eos_id, cb.args.eos_id, "")
                         /\ k.lvl = Resolve(c.lvl, KitLevel("lvl"), 225)
                         /\ k.breedable = Resolve(c.breedable, KitLevel("breedable"), TRUE)

====
